---------------------------- MODULE Spec2Model ----------------------------
(***************************************************************************)
(* A model of audible-alert (src/script.py): the REPL commands `new` and   *)
(* `rank` and the functions they are built from.                           *)
(*                                                                         *)
(* Representation of the program's values:                                 *)
(*  - a date string is the triple of the numbers it is written with, in    *)
(*    the order they are written ("2023-06-01" is <<2023, 6, 1>>,          *)
(*    "15-01-2024" is <<15, 1, 2024>>); strptime turns it into a datetime  *)
(*    record or fails;                                                     *)
(*  - a datetime is [year, month, day, hour, minute, second];              *)
(*  - a timedelta is [days, seconds], normalised as Python does;           *)
(*  - a piece of output text is a sequence of text fragments, numbers      *)
(*    being written digit by digit;                                        *)
(*  - a dict is the sequence of its entries in insertion order;            *)
(*  - an average rating is counted in tenths (4.5 is 45);                  *)
(*  - math.log(1 + reviewers) is counted in units of ln 10, review counts  *)
(*    being drawn among the numbers 10^k - 1, and a float quotient is the  *)
(*    exact fraction [num, den].                                           *)
(***************************************************************************)
EXTENDS Integers, Sequences, FiniteSets

VARIABLES
    pc,          \* where the program is: "prompt", "gathering", "returned", "raised", ...
    owned,       \* get_: the dict of tracked series, in insertion order
    tasks,       \* get_: one probe per tracked series: [status, result]
    completed,   \* get_: the probes' indices in the order they completed
    report,      \* the list of strings a command returned
    today,       \* datetime.today(), seconds precision, as the formatter read it
    library,     \* the library the commerce client answered with
    series,      \* check_releases: the series probed
    response,    \* check_releases: the HTTP outcome, [net, listing]
    releases,    \* check_releases: its outcome, [raised, releases]
    client,      \* rank_reviews: the wishlist as the commerce client holds it
    release,     \* as_relative: its argument
    label,       \* as_relative: the text it returned
    exc,         \* the exception that ended the command, "" when none did
    page,        \* get_wishlisted: the page it asks for next
    wishlisted,  \* get_wishlisted: the total it walks up to
    wishlist,    \* get_wishlisted: the records gathered so far
    requests     \* the client.get('wishlist') calls made, [page, result], in order

\* the locals of get_wishlisted and the calls it made
walk_vars == <<page, wishlisted, wishlist, requests>>

vars == <<pc, owned, tasks, completed, report, today, library, series,
          response, releases, client, release, label, exc, page, wishlisted,
          wishlist, requests>>

----------------------------------------------------------------------------
(* Bounds of the model *)

MaxItems == 3

MaxNodes == 3

MaxWish == 3

LastMonth == 3

MaxTotal == 101

----------------------------------------------------------------------------
(* Sequences and text *)

Range(s) == {s[i] : i \in 1..Len(s)}

SeqsUpTo(S, n) == UNION {[1..k -> S] : k \in 0..n}

Digit == <<"0", "1", "2", "3", "4", "5", "6", "7", "8", "9">>

\* str(n) of an int n >= 0
RECURSIVE Str(_)
Str(n) == IF n < 10 THEN <<Digit[n + 1]>>
          ELSE Str(n \div 10) \o <<Digit[(n % 10) + 1]>>

\* the "%02d" of timedelta.__str__
Pad2(n) == IF n < 10 THEN <<"0">> \o Str(n) ELSE Str(n)

\* The series titles of the model in Python's str order.
TitleOrder == <<"Bar", "Foo">>

SeriesTitles == Range(TitleOrder)

TitleRank(t) == CHOOSE i \in 1..Len(TitleOrder) : TitleOrder[i] = t

StrLess(a, b) == TitleRank(a) < TitleRank(b)

----------------------------------------------------------------------------
(* datetime *)

IsLeap(y) == y % 4 = 0 /\ (y % 100 # 0 \/ y % 400 = 0)

DaysInMonth(y, m) ==
    IF m = 2 THEN (IF IsLeap(y) THEN 29 ELSE 28)
    ELSE IF m \in {4, 6, 9, 11} THEN 30 ELSE 31

RECURSIVE DaysBeforeMonth(_, _)
DaysBeforeMonth(y, m) ==
    IF m = 1 THEN 0 ELSE DaysBeforeMonth(y, m - 1) + DaysInMonth(y, m - 1)

\* datetime.toordinal(): the day's number, 0001-01-01 being day 1
ToOrdinal(dt) ==
    LET y == dt.year - 1
    IN  y * 365 + (y \div 4) - (y \div 100) + (y \div 400)
        + DaysBeforeMonth(dt.year, dt.month) + dt.day

SecondOfDay(dt) == dt.hour * 3600 + dt.minute * 60 + dt.second

\* datetime.__lt__ and __le__
DtLess(a, b) ==
    \/ ToOrdinal(a) < ToOrdinal(b)
    \/ ToOrdinal(a) = ToOrdinal(b) /\ SecondOfDay(a) < SecondOfDay(b)

DtLeq(a, b) == a = b \/ DtLess(a, b)

\* datetime.__sub__: a timedelta, 0 <= seconds < 86400
DtSub(a, b) ==
    LET d == ToOrdinal(a) - ToOrdinal(b)
        s == SecondOfDay(a) - SecondOfDay(b)
    IN  IF s < 0 THEN [days |-> d - 1, seconds |-> s + 86400]
        ELSE [days |-> d, seconds |-> s]

ValueError == [error |-> "ValueError"]

\* The datetime of a year, month and day read by strptime, or ValueError:
\* %Y reads four digits, %m a month, %d a day of that month.
MakeDate(y, m, d) ==
    IF /\ y \in 1000..9999
       /\ m \in 1..12
       /\ d >= 1
       /\ d <= DaysInMonth(y, m)
    THEN [year |-> y, month |-> m, day |-> d, hour |-> 0, minute |-> 0, second |-> 0]
    ELSE ValueError

\* datetime.strptime(s, '%Y-%m-%d')
StrptimeYmd(s) == MakeDate(s[1], s[2], s[3])

\* datetime.strptime(s, '%d-%m-%Y')
StrptimeDmy(s) == MakeDate(s[3], s[2], s[1])

----------------------------------------------------------------------------
(* The owned library and its grouping by series *)

\* The books a library may hold, with the release date as the client writes
\* it; the last one's is malformed.
OwnedBooks ==
    {[title |-> "Vol2", release_date |-> <<2023, 6, 1>>],
     [title |-> "Vol3", release_date |-> <<2024, 1, 10>>],
     [title |-> "Vol1", release_date |-> <<2023, 2, 30>>]}

SeriesRef(t) == [title |-> t, url |-> t]

\* the 'series' of a library item: none, or the series it belongs to, the first one first
Memberships == {<<>>, <<SeriesRef("Foo")>>, <<SeriesRef("Bar")>>,
                <<SeriesRef("Bar"), SeriesRef("Foo")>>}

Items ==
    {[title |-> b.title, series |-> m, release_date |-> b.release_date] :
        b \in OwnedBooks, m \in Memberships}

Libraries == SeqsUpTo(Items, MaxItems)

BookInfo(title, s, release_date, cover_img) ==
    [title |-> title, series |-> s, release_date |-> release_date,
     cover_img |-> cover_img]

IndexOfTitle(d, t) ==
    IF \E i \in 1..Len(d) : d[i].title = t
    THEN CHOOSE i \in 1..Len(d) : d[i].title = t
    ELSE 0

\* the comparison the other way round: the oldest book would be kept
IsNewerReversed(latest, book_info) ==
    DtLess(book_info.release_date, latest.release_date)

\* the test that replaces a series' latest owned book
IsNewer(latest, book_info) ==
    DtLess(latest.release_date, book_info.release_date)

\* the loop of get_series_by_latest_owned_title over has_series
RECURSIVE GroupLoop(_, _)
GroupLoop(books, d) ==
    IF books = <<>> THEN [raised |-> FALSE, owned |-> d]
    ELSE
        LET book == Head(books)
            temp == book.series[1]
            date == StrptimeYmd(book.release_date)
        IN  IF date = ValueError THEN [raised |-> TRUE, owned |-> <<>>]
            ELSE
                LET book_info == BookInfo(book.title, temp.title, date, "")
                    i == IndexOfTitle(d, temp.title)
                IN  IF i = 0
                    THEN GroupLoop(Tail(books),
                            Append(d, [title |-> temp.title, url |-> temp.url,
                                       latest |-> book_info]))
                    ELSE IF IsNewer(d[i].latest, book_info)
                    THEN GroupLoop(Tail(books),
                            [d EXCEPT ![i].latest = book_info])
                    ELSE GroupLoop(Tail(books), d)

HasSeries(items) == SelectSeq(items, LAMBDA book : book.series # <<>>)

get_series_by_latest_owned_title(items) == GroupLoop(HasSeries(items), <<>>)

----------------------------------------------------------------------------
(* as_relative and display *)

\* str(timedelta) of a timedelta of less than a day
TimedeltaStr(diff) ==
    Str(diff.seconds \div 3600) \o <<":">>
    \o Pad2((diff.seconds % 3600) \div 60) \o <<":">>
    \o Pad2(diff.seconds % 60)

\* as_relative with the cutoff left at midnight
as_relative_midnight(rel, now) ==
    IF DtLeq(rel, now) THEN <<>>
    ELSE LET diff == DtSub(rel, now)
         IN  IF diff.days > 0 THEN <<": in ">> \o Str(diff.days) \o <<" days">>
             ELSE <<": in ">> \o TimedeltaStr(diff)

\* as_relative counting a day only from the second day on
as_relative_late(rel, now) ==
    LET cutoff == [rel EXCEPT !.hour = 17]
    IN  IF DtLeq(cutoff, now) THEN <<>>
        ELSE LET diff == DtSub(cutoff, now)
             IN  IF diff.days > 1 THEN <<": in ">> \o Str(diff.days) \o <<" days">>
                 ELSE <<": in ">> \o TimedeltaStr(diff)

\* as_relative(release), `now` being datetime.today().replace(microsecond=0)
as_relative(rel, now) ==
    LET cutoff == [rel EXCEPT !.hour = 17]
    IN  IF DtLeq(cutoff, now) THEN <<>>
        ELSE LET diff == DtSub(cutoff, now)
             IN  IF diff.days > 0 THEN <<": in ">> \o Str(diff.days) \o <<" days">>
                 ELSE <<": in ">> \o TimedeltaStr(diff)

\* by_release_date(b), and the order of two such keys
by_release_date(b) == <<b.release_date, b.series>>

KeyLess(k1, k2) ==
    \/ DtLess(k1[1], k2[1])
    \/ k1[1] = k2[1] /\ StrLess(k1[2], k2[2])

\* min(b, key=by_release_date): the first of the smallest
RECURSIVE MinBook(_)
MinBook(books) ==
    IF Len(books) = 1 THEN books[1]
    ELSE LET m == MinBook(Tail(books))
         IN  IF KeyLess(by_release_date(m), by_release_date(Head(books)))
             THEN m ELSE Head(books)

by_min_release(books) == by_release_date(MinBook(books))

\* sorted(groups, key=by_min_release): a stable sort
RECURSIVE InsertGroup(_, _)
InsertGroup(sorted, g) ==
    IF sorted = <<>> THEN <<g>>
    ELSE IF KeyLess(by_min_release(g), by_min_release(Head(sorted)))
    THEN <<g>> \o sorted
    ELSE <<Head(sorted)>> \o InsertGroup(Tail(sorted), g)

RECURSIVE SortGroups(_)
SortGroups(groups) ==
    IF groups = <<>> THEN <<>>
    ELSE InsertGroup(SortGroups(SubSeq(groups, 1, Len(groups) - 1)),
                     groups[Len(groups)])

\* one block of the report: the header line and one line per book
Block(books, now) ==
    [header |-> books[1].series,
     lines  |-> [i \in 1..Len(books) |->
                    [title |-> books[i].title,
                     relative |-> as_relative(books[i].release_date, now)]]]

\* display that leaves the groups in the order given
display_unsorted(new_releases, now) ==
    LET groups == SelectSeq(new_releases, LAMBDA r : r # <<>>)
    IN  [i \in 1..Len(groups) |-> Block(groups[i], now)]

display(new_releases, now) ==
    LET sorted_releases ==
            SortGroups(SelectSeq(new_releases, LAMBDA r : r # <<>>))
    IN  [i \in 1..Len(sorted_releases) |-> Block(sorted_releases[i], now)]

----------------------------------------------------------------------------
(* check_releases: the probe of one series' listing *)

\* The '.releaseDateLabel' nodes a listing may hold: `text` is the date the
\* regular expression finds in the node's text, <<>> when it finds none.
Nodes ==
    {[text |-> <<1, 6, 2023>>,  title |-> "Vol2", cover_img |-> "vol2.jpg"],
     [text |-> <<10, 1, 2024>>, title |-> "Vol3", cover_img |-> "vol3.jpg"],
     [text |-> <<15, 1, 2024>>, title |-> "Vol4", cover_img |-> "vol4.jpg"],
     [text |-> <<1, 15, 2024>>, title |-> "Vol5", cover_img |-> "vol5.jpg"],
     [text |-> <<>>,            title |-> "Vol6", cover_img |-> "vol6.jpg"]}

Listings == SeqsUpTo(Nodes, MaxNodes)

\* what http_client.get ends with: a response, or an exception (timeout, network)
Responses ==
    {[net |-> "error", listing |-> <<>>]} \cup [net : {"ok"}, listing : Listings]

\* get_release_date(node): re.search(...).group(0) fails on a node without a date
get_release_date(node) ==
    IF node.text = <<>> THEN [error |-> "AttributeError"]
    ELSE StrptimeDmy(node.text)

IsError(v) == "error" \in DOMAIN v

\* a filter that also keeps a release of the latest owned book's day
KeepsFromLatest(release_date, s) ==
    DtLeq(s.latest.release_date, release_date)

\* the filter of the list comprehension
Keeps(release_date, s) ==
    DtLess(s.latest.release_date, release_date)

\* the list comprehension of check_releases, node after node
RECURSIVE ReleaseLoop(_, _, _)
ReleaseLoop(nodes, s, acc) ==
    IF nodes = <<>> THEN [raised |-> FALSE, exc |-> "", releases |-> acc]
    ELSE
        LET node == Head(nodes)
            release_date == get_release_date(node)
        IN  IF IsError(release_date)
            THEN [raised |-> TRUE, exc |-> release_date.error, releases |-> <<>>]
            ELSE IF Keeps(release_date, s)
            THEN ReleaseLoop(Tail(nodes), s,
                    Append(acc, BookInfo(node.title, s.title, release_date,
                                         node.cover_img)))
            ELSE ReleaseLoop(Tail(nodes), s, acc)

check_releases(s, resp) ==
    IF resp.net = "error"
    THEN [raised |-> TRUE, exc |-> "HTTPError", releases |-> <<>>]
    ELSE ReleaseLoop(resp.listing, s, <<>>)

----------------------------------------------------------------------------
(* get_wishlisted and rank_reviews *)

page_size == 50

WishTitles == {"T", "U"}

\* average ratings, in tenths
AverageRatings == {0, 30, 45, 50}

\* numbers of reviews: 10^k - 1
ReviewCounts == {0, 9, 99}

\* a product of the wishlist, reduced to the fields Rating(...) is built from
Products == [title : WishTitles, average_rating : AverageRatings,
             reviewers : ReviewCounts]

\* The wishlist as the client holds it; its pages are cut when it is asked.
Clients == [products : SeqsUpTo(Products, MaxWish)]

\* client.get('wishlist', num_results=page_size, page=page)
ClientGet(c, pg) ==
    LET n == Len(c.products)
        lo == pg * page_size + 1
        hi == IF (pg + 1) * page_size < n THEN (pg + 1) * page_size ELSE n
    IN  [total_results |-> n, products |-> SubSeq(c.products, lo, hi)]

\* the loop condition with <= for <
WishMoreInclusive(pg, total) == pg * page_size <= total

\* the condition of the while loop of get_wishlisted
WishMore(pg, total) == pg * page_size < total

\* the total after a request: only page 0's answer sets it
WishTotal(pg, total, result) ==
    IF pg = 0 THEN result.total_results ELSE total

\* the while loop of get_wishlisted
RECURSIVE WishLoop(_, _, _, _)
WishLoop(c, pg, total, acc) ==
    IF WishMore(pg, total)
    THEN LET result == ClientGet(c, pg)
         IN  WishLoop(c, pg + 1, WishTotal(pg, total, result),
                      acc \o result.products)
    ELSE acc

get_wishlisted(c) == WishLoop(c, 0, 1, <<>>)

\* math.log(1 + n) in units of ln 10
Log1p(n) == CHOOSE k \in 0..9 : 10 ^ k = 1 + n

\* the dict comprehension {rating.title: ...}: a later record of a title
\* replaces an earlier one
RECURSIVE LastOfTitle(_, _)
LastOfTitle(wl, t) ==
    IF wl[Len(wl)].title = t THEN wl[Len(wl)]
    ELSE LastOfTitle(SubSeq(wl, 1, Len(wl) - 1), t)

log_reviews(wl) ==
    [t \in {wl[i].title : i \in 1..Len(wl)} |->
        Log1p(LastOfTitle(wl, t).reviewers)]

MaxOf(S) == CHOOSE x \in S : \A y \in S : y <= x

\* norm_log_review: 5 * log_review / upper for each title, as a fraction;
\* `upper` is positive
norm_log_review(logs, upper) ==
    [t \in DOMAIN logs |-> [num |-> 5 * logs[t], den |-> upper]]

\* the key of the sort, average_rating * norm_log_review[title], in tenths
SortKey(rating, logs, upper) ==
    LET norm == norm_log_review(logs, upper)[rating.title]
    IN  [num |-> rating.average_rating * norm.num, den |-> norm.den]

FracLess(a, b) == a.num * b.den < b.num * a.den

\* list.sort(reverse=True, key=...): descending and stable
RECURSIVE InsertRating(_, _, _, _)
InsertRating(sorted, r, logs, upper) ==
    IF sorted = <<>> THEN <<r>>
    ELSE IF FracLess(SortKey(Head(sorted), logs, upper), SortKey(r, logs, upper))
    THEN <<r>> \o sorted
    ELSE <<Head(sorted)>> \o InsertRating(Tail(sorted), r, logs, upper)

\* the sort without reverse=True
RECURSIVE InsertRatingAscending(_, _, _, _)
InsertRatingAscending(sorted, r, logs, upper) ==
    IF sorted = <<>> THEN <<r>>
    ELSE IF FracLess(SortKey(r, logs, upper), SortKey(Head(sorted), logs, upper))
    THEN <<r>> \o sorted
    ELSE <<Head(sorted)>> \o InsertRatingAscending(Tail(sorted), r, logs, upper)

RECURSIVE SortRatingsAscending(_, _, _)
SortRatingsAscending(wl, logs, upper) ==
    IF wl = <<>> THEN <<>>
    ELSE InsertRatingAscending(
            SortRatingsAscending(SubSeq(wl, 1, Len(wl) - 1), logs, upper),
            wl[Len(wl)], logs, upper)

RECURSIVE SortRatings(_, _, _)
SortRatings(wl, logs, upper) ==
    IF wl = <<>> THEN <<>>
    ELSE InsertRating(SortRatings(SubSeq(wl, 1, Len(wl) - 1), logs, upper),
                      wl[Len(wl)], logs, upper)

\* str(x) of a float with one decimal, given in tenths
FloatStr(a) == Str(a \div 10) \o <<".">> \o Str(a % 10)

\* Rating.__str__
RatingStr(rating) ==
    <<rating.title, "\n  - average rating: ">> \o FloatStr(rating.average_rating)
    \o <<"\n  - reviews: ">> \o Str(rating.reviewers)

\* rank_reviews: max() of no value raises ValueError, a division by an
\* `upper` of 0.0 raises ZeroDivisionError
rank_reviews(c) ==
    LET wl == get_wishlisted(c)
        logs == log_reviews(wl)
    IN  IF wl = <<>> THEN [raised |-> TRUE, exc |-> "ValueError", out |-> <<>>]
        ELSE LET upper == MaxOf({logs[t] : t \in DOMAIN logs})
             IN  IF upper = 0
                 THEN [raised |-> TRUE, exc |-> "ZeroDivisionError", out |-> <<>>]
                 ELSE LET sorted == SortRatings(wl, logs, upper)
                      IN  [raised |-> FALSE, exc |-> "",
                           out |-> [i \in 1..Len(sorted) |-> RatingStr(sorted[i])]]

----------------------------------------------------------------------------
(* The program's state and its steps *)

\* the value of a variable nothing was assigned to yet
None == [none |-> TRUE]

Init ==
    /\ pc = "prompt"
    /\ owned = <<>>
    /\ tasks = <<>>
    /\ completed = <<>>
    /\ report = <<>>
    /\ today = None
    /\ library = <<>>
    /\ series = None
    /\ response = None
    /\ releases = None
    /\ client = None
    /\ release = None
    /\ label = <<>>
    /\ exc = ""
    /\ page = 0
    /\ wishlisted = 0
    /\ wishlist = <<>>
    /\ requests = <<>>

At(y, m, d, h, mi, s) ==
    [year |-> y, month |-> m, day |-> d, hour |-> h, minute |-> mi, second |-> s]

\* the moments at which the `new` command formats its report
DisplayNows == {At(2024, 1, 10, 12, 0, 0), At(2024, 1, 14, 18, 30, 0)}

\* the [ignore_series] values of config.ini (none when the section is absent)
IgnoreLists == SUBSET SeriesTitles

\* `new`, up to the await of gather: the library is fetched and grouped, the
\* ignored series are dropped and one probe per remaining series is started.
\* A malformed release date in the library ends the command with ValueError.
NewStart ==
    /\ pc = "prompt"
    /\ \E lib \in Libraries, ignore_series \in IgnoreLists :
          LET g == get_series_by_latest_owned_title(lib)
              kept == SelectSeq(g.owned, LAMBDA s : s.title \notin ignore_series)
          IN  IF g.raised
              THEN /\ pc' = "raised"
                   /\ exc' = "ValueError"
                   /\ UNCHANGED <<owned, tasks>>
              ELSE /\ pc' = "gathering"
                   /\ owned' = kept
                   /\ tasks' = [i \in 1..Len(kept) |->
                                  [status |-> "pending", result |-> <<>>, exc |-> ""]]
                   /\ exc' = ""
    /\ UNCHANGED walk_vars
    /\ UNCHANGED <<completed, report, today, library, series, response,
                   releases, client, release, label>>

\* The probe of series i ends: with its list of new releases, or with the
\* exception check_releases raised.
ProbeDone(i) ==
    /\ pc = "gathering"
    /\ tasks[i].status = "pending"
    /\ \E resp \in Responses :
          LET r == check_releases(owned[i], resp)
          IN  tasks' = [tasks EXCEPT ![i] =
                          [status |-> IF r.raised THEN "failed" ELSE "done",
                           result |-> r.releases, exc |-> r.exc]]
    /\ completed' = Append(completed, i)
    /\ UNCHANGED walk_vars
    /\ UNCHANGED <<pc, owned, report, today, library, series, response,
                   releases, client, release, label, exc>>

\* gather re-raises the exception of a probe that failed: it leaves get_ and
\* repl, and the probes still pending are cancelled when the event loop closes.
GatherRaise ==
    /\ pc = "gathering"
    /\ \E j \in 1..Len(completed) :
          /\ tasks[completed[j]].status = "failed"
          /\ \A l \in 1..(j - 1) : tasks[completed[l]].status # "failed"
          /\ exc' = tasks[completed[j]].exc
    /\ pc' = "raised"
    /\ tasks' = [j \in 1..Len(tasks) |->
                    IF tasks[j].status = "pending"
                    THEN [tasks[j] EXCEPT !.status = "cancelled"]
                    ELSE tasks[j]]
    /\ UNCHANGED walk_vars
    /\ UNCHANGED <<owned, completed, report, today, library, series, response,
                   releases, client, release, label>>

\* the results of the probes, in the order of the series
gathered == [i \in 1..Len(tasks) |-> tasks[i].result]

\* Every probe returned: gather returns and display formats the report.
GatherReturn ==
    /\ pc = "gathering"
    /\ \A i \in 1..Len(tasks) : tasks[i].status = "done"
    /\ \E now \in DisplayNows :
          /\ today' = now
          /\ report' = display(gathered, now)
    /\ pc' = "returned"
    /\ UNCHANGED walk_vars
    /\ UNCHANGED <<owned, tasks, completed, library, series, response,
                   releases, client, release, label, exc>>

\* repl prints what the command returned and prompts again
PrintResult ==
    /\ pc = "returned"
    /\ pc' = "prompt"
    /\ owned' = <<>>
    /\ tasks' = <<>>
    /\ completed' = <<>>
    /\ report' = <<>>
    /\ today' = None
    /\ client' = None
    /\ UNCHANGED walk_vars
    /\ UNCHANGED <<library, series, response, releases, release, label, exc>>

NextNew ==
    \/ NewStart
    \/ \E i \in 1..Len(tasks) : ProbeDone(i)
    \/ GatherRaise
    \/ GatherReturn
    \/ PrintResult

SpecNew == Init /\ [][NextNew]_vars

\* The `rank` command.
RankCmd ==
    /\ pc = "prompt"
    /\ \E c \in Clients :
          LET r == rank_reviews(c)
          IN  /\ client' = c
              /\ report' = r.out
              /\ exc' = r.exc
              /\ pc' = IF r.raised THEN "raised" ELSE "returned"
    /\ UNCHANGED walk_vars
    /\ UNCHANGED <<owned, tasks, completed, today, library, series, response,
                   releases, release, label>>

NextRank == RankCmd \/ PrintResult

SpecRank == Init /\ [][NextRank]_vars

\* get_series_by_latest_owned_title applied to a library
GroupStep ==
    /\ pc = "prompt"
    /\ \E lib \in Libraries :
          LET g == get_series_by_latest_owned_title(lib)
          IN  /\ library' = lib
              /\ owned' = g.owned
              /\ exc' = IF g.raised THEN "ValueError" ELSE ""
              /\ pc' = IF g.raised THEN "raised" ELSE "grouped"
    /\ UNCHANGED walk_vars
    /\ UNCHANGED <<tasks, completed, report, today, series, response,
                   releases, client, release, label>>

SpecGrouper == Init /\ [][GroupStep]_vars

\* the series the grouper can hand to a probe
TrackedSeries ==
    {[title |-> t, url |-> t,
      latest |-> BookInfo(b.title, t, StrptimeYmd(b.release_date), "")] :
        t \in SeriesTitles,
        b \in {x \in OwnedBooks : StrptimeYmd(x.release_date) # ValueError}}

\* check_releases applied to a series and the answer of its listing
ProbeStep ==
    /\ pc = "prompt"
    /\ \E s \in TrackedSeries, resp \in Responses :
          /\ series' = s
          /\ response' = resp
          /\ releases' = check_releases(s, resp)
    /\ pc' = "probed"
    /\ UNCHANGED walk_vars
    /\ UNCHANGED <<owned, tasks, completed, report, today, library, client,
                   release, label, exc>>

SpecProber == Init /\ [][ProbeStep]_vars

\* the days from December 2023 to the end of month LastMonth of 2024
Days ==
    {<<2023, 12, d>> : d \in 1..31}
    \cup UNION {{<<2024, m, d>> : d \in 1..DaysInMonth(2024, m)} : m \in 1..LastMonth}

TimesOfDay == {<<0, 0, 0>>, <<12, 0, 0>>, <<16, 59, 59>>, <<17, 0, 0>>,
               <<17, 0, 1>>, <<23, 59, 59>>}

\* as_relative applied to a release date, at a moment `now`
RelativeStep ==
    /\ pc = "prompt"
    /\ \E d \in Days, n \in Days, t \in TimesOfDay :
          LET rel == StrptimeYmd(d)
              now == At(n[1], n[2], n[3], t[1], t[2], t[3])
          IN  /\ release' = rel
              /\ today' = now
              /\ label' = as_relative(rel, now)
    /\ pc' = "rendered"
    /\ UNCHANGED walk_vars
    /\ UNCHANGED <<owned, tasks, completed, report, library, series, response,
                   releases, client, exc>>

SpecRelative == Init /\ [][RelativeStep]_vars

----------------------------------------------------------------------------
(* What the claims compare the program with *)

\* a datetime's day as <<year, month, day>>, and the order of such triples
DayOf(dt) == <<dt.year, dt.month, dt.day>>

YmdLess(a, b) ==
    \/ a[1] < b[1]
    \/ a[1] = b[1] /\ a[2] < b[2]
    \/ a[1] = b[1] /\ a[2] = b[2] /\ a[3] < b[3]

YmdLeq(a, b) == a = b \/ YmdLess(a, b)

\* the day a listing's date text names, day-month-year
DmyDay(text) == <<text[3], text[2], text[1]>>

Perms(n) == {p \in [1..n -> 1..n] : \A i, j \in 1..n : p[i] = p[j] => i = j}

----------------------------------------------------------------------------
(* C3: the grouper *)

\* the library items whose first series membership is the series titled t
ItemsOf(t) ==
    {k \in 1..Len(library) :
        library[k].series # <<>> /\ library[k].series[1].title = t}

TitlesPresent ==
    UNION {{library[k].series[m].title : m \in 1..Len(library[k].series)} :
              k \in 1..Len(library)}

\* C3: when get_series_by_latest_owned_title completes, it holds no more
\* entries than there are distinct series titles in the library, and each
\* entry's latest.release_date is the greatest release date among the items
\* whose first series membership is that series.
C3_GrouperKeepsLatest ==
    pc = "grouped" =>
        /\ Len(owned) <= Cardinality(TitlesPresent)
        /\ \A i \in 1..Len(owned) :
              LET latest == DayOf(owned[i].latest.release_date)
              IN  /\ \E k \in ItemsOf(owned[i].title) :
                        library[k].release_date = latest
                  /\ \A k \in ItemsOf(owned[i].title) :
                        YmdLeq(library[k].release_date, latest)

\* a library with an item outside any series and a series whose later item
\* is the newer one
C3_Witness ==
    /\ pc = "grouped"
    /\ \E k \in 1..Len(library) : library[k].series = <<>>
    /\ \E i \in 1..Len(owned) :
          \E k, l \in ItemsOf(owned[i].title) :
              /\ k < l
              /\ YmdLess(library[k].release_date, library[l].release_date)
              /\ DayOf(owned[i].latest.release_date) = library[l].release_date

----------------------------------------------------------------------------
(* C4, C5: the probe of one series *)

\* the nodes of the listing whose date is after the latest owned book's
NewerNodes ==
    SelectSeq(response.listing,
              LAMBDA n : YmdLess(DayOf(series.latest.release_date), DmyDay(n.text)))

Parses(n) == n.text # <<>> /\ ~IsError(StrptimeDmy(n.text))

\* C4: when every node of the listing carries a date, check_releases returns
\* exactly the books dated after the latest owned one, in document order.
C4_ProberFilter ==
    (pc = "probed" /\ response.net = "ok"
        /\ \A k \in 1..Len(response.listing) : Parses(response.listing[k])) =>
        /\ ~releases.raised
        /\ Len(releases.releases) = Len(NewerNodes)
        /\ \A k \in 1..Len(NewerNodes) :
              /\ releases.releases[k].title = NewerNodes[k].title
              /\ releases.releases[k].series = series.title
              /\ DayOf(releases.releases[k].release_date) = DmyDay(NewerNodes[k].text)

\* a listing with a book of the latest owned book's day and two newer books,
\* the later one first
C4_Witness ==
    /\ pc = "probed"
    /\ ~releases.raised
    /\ \E k \in 1..Len(response.listing) :
          DmyDay(response.listing[k].text) = DayOf(series.latest.release_date)
    /\ Len(releases.releases) = 2
    /\ YmdLess(DayOf(releases.releases[2].release_date),
               DayOf(releases.releases[1].release_date))

\* the nodes that carry a date after the latest owned book's
NewerParsedNodes ==
    SelectSeq(response.listing,
              LAMBDA n : Parses(n) /\
                  YmdLess(DayOf(series.latest.release_date), DmyDay(n.text)))

\* C5: a node whose date cannot be extracted or parsed contributes no record
\* and does not abort the probe, which returns the newer books of the other
\* nodes.
C5_NodeFailureSkipped ==
    (pc = "probed" /\ response.net = "ok") =>
        /\ ~releases.raised
        /\ Len(releases.releases) = Len(NewerParsedNodes)
        /\ \A k \in 1..Len(NewerParsedNodes) :
              releases.releases[k].title = NewerParsedNodes[k].title

----------------------------------------------------------------------------
(* C1, C2: the `new` command *)

\* C1: a probe that fails is isolated: the command does not end with its
\* exception, no sibling probe is left unfinished, and the report returned
\* holds the new releases of the probes that succeeded.
C1_ProbeFailureIsolated ==
    (\E i \in 1..Len(tasks) : tasks[i].status = "failed") =>
        /\ pc # "raised"
        /\ \A j \in 1..Len(tasks) : tasks[j].status # "cancelled"
        /\ pc = "returned" =>
              /\ \A j \in 1..Len(tasks) : tasks[j].status \in {"done", "failed"}
              /\ report = display(gathered, today)

\* the books a block of the report was made from
GroupOfBlock(b) == tasks[IndexOfTitle(owned, b.header)].result

\* the earliest release day of a group
MinDay(g) ==
    CHOOSE d \in {DayOf(g[k].release_date) : k \in 1..Len(g)} :
        \A k \in 1..Len(g) : YmdLeq(d, DayOf(g[k].release_date))

BlockLeq(b1, b2) ==
    \/ YmdLess(MinDay(GroupOfBlock(b1)), MinDay(GroupOfBlock(b2)))
    \/ /\ MinDay(GroupOfBlock(b1)) = MinDay(GroupOfBlock(b2))
       /\ TitleRank(b1.header) <= TitleRank(b2.header)

\* C2: the report is fixed by the series and their probes' results, whatever
\* the order the probes completed in: it holds one block per series with new
\* releases, the series' books in the probe's order, and the blocks are in
\* non-decreasing order of (earliest release date of the group, series title).
C2_ReportOrder ==
    pc = "returned" =>
        /\ Len(report) = Cardinality({i \in 1..Len(tasks) : tasks[i].result # <<>>})
        /\ \A i \in 1..Len(tasks) :
              tasks[i].result # <<>> =>
                  \E k \in 1..Len(report) :
                      /\ report[k].header = owned[i].title
                      /\ Len(report[k].lines) = Len(tasks[i].result)
                      /\ \A m \in 1..Len(tasks[i].result) :
                            /\ report[k].lines[m].title = tasks[i].result[m].title
                            /\ report[k].lines[m].relative =
                                  as_relative(tasks[i].result[m].release_date, today)
        /\ \A k, l \in 1..Len(report) :
              k < l => BlockLeq(report[k], report[l])

\* the second series' probe completed first, and its block comes first
C2_Witness ==
    /\ pc = "returned"
    /\ completed = <<2, 1>>
    /\ Len(report) = 2
    /\ report[1].header = owned[2].title
    /\ Len(report[1].lines) = 2

----------------------------------------------------------------------------
(* C6, C7, C8: the `rank` command *)

Ranked == pc \in {"returned", "raised"}

\* a record's own score, up to the factor 5 / maxLog shared by all records
OwnScore(r) == r.average_rating * Log1p(r.reviewers)

MaxLog(wl) == MaxOf({Log1p(wl[i].reviewers) : i \in 1..Len(wl)})

\* C6: the output of rank is the wishlist sorted descending by each record's
\* own score, records of equal scores in their original order.
C6_RankSortedByOwnScore ==
    (pc = "returned" /\ client.products # <<>>) =>
        \E p \in Perms(Len(client.products)) :
              LET wl == client.products
              IN  /\ \A k \in 1..Len(wl) : report[k] = RatingStr(wl[p[k]])
                  /\ \A k, l \in 1..Len(wl) :
                        k < l =>
                            \/ OwnScore(wl[p[k]]) > OwnScore(wl[p[l]])
                            \/ /\ OwnScore(wl[p[k]]) = OwnScore(wl[p[l]])
                               /\ p[k] < p[l]

\* C7: a wishlist that is empty, or whose review counts are all 0, ends the
\* command in a reported "nothing to rank" outcome, never in a division by 0.
C7_DegenerateGuarded ==
    (Ranked /\ (client.products = <<>> \/ MaxLog(client.products) = 0)) =>
        /\ pc = "returned"
        /\ exc = ""

\* the wishlist is A, without reviews, and B, with 99, in either order
IsAB(wl, a, b) ==
    /\ Len(wl) = 2
    /\ {a, b} = {1, 2}
    /\ wl[a].reviewers = 0
    /\ wl[b].reviewers = 99
    /\ wl[a].title # wl[b].title

NormOf(wl, i) ==
    norm_log_review(log_reviews(wl), MaxLog(wl))[wl[i].title]

----------------------------------------------------------------------------
(* C9, C10: as_relative *)

Noon10Jan == At(2024, 1, 10, 12, 0, 0)

\* C9 as stated: at 2024-01-10T12:00:00 a release of 2024-01-15 is labelled
\* ": in 4 days", one of 2024-01-09 "", one of 2024-01-10 ": in 5:00:00".
C9_LabelsAtNoon ==
    (pc = "rendered" /\ today = Noon10Jan) =>
        /\ DayOf(release) = <<2024, 1, 15>> => label = <<": in ", "4", " days">>
        /\ DayOf(release) = <<2024, 1, 9>> => label = <<>>
        /\ DayOf(release) = <<2024, 1, 10>> =>
              label = <<": in ", "5", ":", "0", "0", ":", "0", "0">>

\* C9, amended: at 2024-01-10T12:00:00 a release of 2024-01-15 is labelled
\* ": in 5 days" (the cutoff is 5 days and 5 hours away), one of 2024-01-09
\* "", one of 2024-01-10 ": in 5:00:00".
C9_LabelsAtNoonFiveDays ==
    (pc = "rendered" /\ today = Noon10Jan) =>
        /\ DayOf(release) = <<2024, 1, 15>> => label = <<": in ", "5", " days">>
        /\ DayOf(release) = <<2024, 1, 9>> => label = <<>>
        /\ DayOf(release) = <<2024, 1, 10>> =>
              label = <<": in ", "5", ":", "0", "0", ":", "0", "0">>

C9_Witness ==
    /\ pc = "rendered"
    /\ today = Noon10Jan
    /\ DayOf(release) = <<2024, 1, 15>>
    /\ label = <<": in ", "5", " days">>

\* the Julian day number of a day of the Gregorian calendar
JulianDay(d) ==
    LET a == IF d[2] <= 2 THEN 1 ELSE 0
        y == d[1] + 4800 - a
        m == d[2] + 12 * a - 3
    IN  d[3] + ((153 * m + 2) \div 5) + 365 * y + (y \div 4) - (y \div 100)
        + (y \div 400) - 32045

\* the seconds from `today` to 17:00 of the release day
SecondsToCutoff ==
    (JulianDay(DayOf(release)) - JulianDay(DayOf(today))) * 86400
    + 17 * 3600 - (today.hour * 3600 + today.minute * 60 + today.second)

\* C10: as_relative returns "" when the cutoff is not after now, ": in N
\* days" with N the whole days left when at least one full day is left, and
\* otherwise the time left as hours:minutes:seconds, which is then more than
\* 0 and less than 24 hours.
C10_RelativeLabel ==
    pc = "rendered" =>
        LET left == SecondsToCutoff
        IN  /\ left <= 0 => label = <<>>
            /\ left >= 86400 =>
                  /\ left \div 86400 >= 1
                  /\ label = <<": in ">> \o Str(left \div 86400) \o <<" days">>
            /\ (0 < left /\ left < 86400) =>
                  label = <<": in ">> \o Str(left \div 3600) \o <<":">>
                          \o Pad2((left % 3600) \div 60) \o <<":">>
                          \o Pad2(left % 60)

\* exactly one day is left, across the end of February
C10_Witness ==
    /\ pc = "rendered"
    /\ DayOf(release) = <<2024, 3, 1>>
    /\ today = At(2024, 2, 29, 17, 0, 0)
    /\ label = <<": in ", "1", " days">>

----------------------------------------------------------------------------
(* get_wishlisted, request by request *)

\* two products a page may hold
ProductOne == [title |-> "T", average_rating |-> 45, reviewers |-> 9]

ProductTwo == [title |-> "U", average_rating |-> 30, reviewers |-> 99]

\* what a page of the wishlist may hold
PageProducts == {<<>>, <<ProductOne>>, <<ProductTwo, ProductOne>>}

\* The total_results a response may report: any total up to MaxTotal on page
\* 0; on a later page the same total, or the total of a wishlist that was
\* emptied or that grew by a page in the meantime.
ReportedTotals(pg, total) ==
    IF pg = 0 THEN 0..MaxTotal ELSE {total, 0, total + page_size}

\* get_wishlisted is entered: wishlisted = 1, page = 0, wishlist = []
WalkStart ==
    /\ pc = "prompt"
    /\ pc' = "walking"
    /\ page' = 0
    /\ wishlisted' = 1
    /\ wishlist' = <<>>
    /\ requests' = <<>>
    /\ UNCHANGED <<owned, tasks, completed, report, today, library, series,
                   response, releases, client, release, label, exc>>

\* one turn of the while loop: the page is requested and its answer taken in
WalkRequest ==
    /\ pc = "walking"
    /\ WishMore(page, wishlisted)
    /\ \E t \in ReportedTotals(page, wishlisted), ps \in PageProducts :
          LET result == [total_results |-> t, products |-> ps]
          IN  /\ requests' = Append(requests, [page |-> page, result |-> result])
              /\ wishlisted' = WishTotal(page, wishlisted, result)
              /\ wishlist' = wishlist \o result.products
    /\ page' = page + 1
    /\ UNCHANGED <<pc, owned, tasks, completed, report, today, library, series,
                   response, releases, client, release, label, exc>>

\* the loop condition fails: get_wishlisted returns wishlist
WalkReturn ==
    /\ pc = "walking"
    /\ ~WishMore(page, wishlisted)
    /\ pc' = "walked"
    /\ UNCHANGED walk_vars
    /\ UNCHANGED <<owned, tasks, completed, report, today, library, series,
                   response, releases, client, release, label, exc>>

NextWalk == WalkStart \/ WalkRequest \/ WalkReturn

\* The loop holds no await and no wait: once entered it runs on.
SpecWalk == Init /\ [][NextWalk]_vars /\ WF_vars(NextWalk)

----------------------------------------------------------------------------
(* C11: the wishlist walk *)

\* max(1, ceil(total / 50)), and the pages' products one after another
RequestsDue(total) == IF total = 0 THEN 1 ELSE (total + 49) \div 50

RECURSIVE ProductsOf(_)
ProductsOf(rs) ==
    IF rs = <<>> THEN <<>>
    ELSE ProductsOf(SubSeq(rs, 1, Len(rs) - 1)) \o rs[Len(rs)].result.products

WalkInOrder ==
    /\ \A k \in 1..Len(requests) : requests[k].page = k - 1
    /\ requests # <<>> =>
          /\ wishlisted = requests[1].result.total_results
          /\ Len(requests) <= RequestsDue(requests[1].result.total_results)
    /\ pc = "walked" =>
          /\ requests # <<>>
          /\ Len(requests) = RequestsDue(requests[1].result.total_results)
          /\ wishlist = ProductsOf(requests)

\* C11: get_wishlisted terminates; it requests page 0 first, takes the total
\* from the answer to page 0 alone, requests the pages 1, 2, ... one after
\* another, makes max(1, ceil(total / 50)) requests in all and returns the
\* pages' records in the order of the requests.
C11_WishlistWalk == []WalkInOrder /\ <>(pc = "walked")

\* three pages were walked though the later answers reported other totals
C11_Witness ==
    /\ pc = "walked"
    /\ Len(requests) = 3
    /\ requests[2].result.total_results = 0
    /\ requests[3].result.total_results > requests[1].result.total_results
    /\ wishlist = <<ProductTwo, ProductOne, ProductOne>>

============================================================================
